---- MODULE Spec2Model ----
(***************************************************************************)
(* vstats: the batched Monte Carlo estimation of the rejection probability *)
(* of Welch's test (src/src/vstats/_est_test_properties.py).               *)
(*                                                                         *)
(* The module models the three functions of that file:                     *)
(*   _samples_per_batch             (the batch planner),                   *)
(*   _fix_degenerated_columns       (the degenerate-sample repair),        *)
(*   get_est_welchs_test_properties (the simulation engine and estimator). *)
(*                                                                         *)
(* A matrix is a record [shape |-> <<rows, cols>>, data |-> rows of cols], *)
(* filled from a flat block of variates in row-major order, as numpy's     *)
(* reshape does.  The random generator is a position in the stream of      *)
(* variates its seed determines; the stream is revealed as it is read      *)
(* (tape), so that a generator seeded the same way reads the same values.  *)
(***************************************************************************)
EXTENDS Integers, Sequences, FiniteSets, TLC

(***************************************************************************)
(* Bounds of the model.                                                    *)
(***************************************************************************)
\* largest total sample size in the list n
MaxSampleSize == 4
\* longest list n
MaxListLen == 2
\* largest n_simulation of an engine run
MaxSimulation == 2
\* most observations one engine run draws before any repair:
\* the sum over n of sample_size * n_simulation
MaxDraws == 8
\* most rejected redraws of one repair call (the loop itself has no cap)
MaxAttempts == 2
\* a memory ceiling small enough for matrices of a few cells to cross it
ScaledCeiling == 3
\* most observations a run that is repeated draws before any repair
MaxRerunDraws == 4
\* largest n_simulation handed to the batch planner on its own
MaxPlannerSimulation == 7
\* largest small sample size handed to the batch planner on its own
MaxPlannerSize == 6
\* largest denominator of a share_n_group_1 handed to the size split
MaxShareDen == 4

(***************************************************************************)
(* The memory ceiling of _samples_per_batch (line 50).                     *)
(***************************************************************************)
MAX_OBSERVATIONS == 100000

VARIABLES
    pc,                         \* where the run stands
    ceiling,                    \* the memory ceiling in force
    n,                          \* argument: list of total sample sizes
    share_n_group_1,            \* argument: <<numerator, denominator>>
    alpha_test,                 \* argument: <<numerator, denominator>>
    n_simulation,               \* argument
    fix_degenerated_samples,    \* argument
    rng,                        \* generator: variates consumed so far
    seeded,                     \* the caller can seed a generator alike again
    tape,                       \* a seeded generator's stream, as far as read
    results,                    \* list of result rows
    idx,                        \* position of the for loop over n
    sample_size,                \* loop variable of the for loop over n
    num_fixed_samples_group_1,
    num_fixed_samples_group_2,
    n_1,
    n_2,
    bernoulli_trial,
    plan,                       \* the array _samples_per_batch returned
    b,                          \* position of the for loop over plan
    samples_per_batch,          \* loop variable of the for loop over plan
    x_1,
    x_2,
    fix_group,                  \* the group whose matrix the repair holds
    is_single_value_column,     \* repair: the mask computed at entry
    x_temp,                     \* repair: the last block drawn
    attempts,                   \* repair: redraws rejected so far
    x_at_entry,                 \* repair: the matrix as it was handed in
    df,                         \* the table returned
    run,                        \* 1, or 2 for the repeated call
    df_first                    \* the table the first call returned

vars == <<pc, ceiling, n, share_n_group_1, alpha_test, n_simulation,
          fix_degenerated_samples, rng, seeded, tape, results, idx, sample_size,
          num_fixed_samples_group_1, num_fixed_samples_group_2, n_1, n_2,
          bernoulli_trial, plan, b, samples_per_batch, x_1, x_2, fix_group,
          is_single_value_column, x_temp, attempts, x_at_entry, df, run,
          df_first>>

args == <<ceiling, n, share_n_group_1, alpha_test, n_simulation,
          fix_degenerated_samples, seeded>>

repair_locals == <<fix_group, is_single_value_column, x_temp, attempts,
                   x_at_entry>>

(***************************************************************************)
(* Arithmetic helpers.                                                     *)
(***************************************************************************)
Max(p, q) == IF p >= q THEN p ELSE q

\* math.ceil of size * (num / den)
CeilProduct(size, num, den) == (size * num + den - 1) \div den

\* a split that rounds down: math.floor for math.ceil
group_1_size_floor(size, share) == (size * share[1]) \div share[2]

\* lines 296-297: n_1 = math.ceil(sample_size * share_n_group_1)
group_1_size(size, share) == CeilProduct(size, share[1], share[2])

\* n_2 = sample_size - n_1
group_2_size(size, share) == size - group_1_size(size, share)

RECURSIVE SumSeq(_)
SumSeq(s) == IF s = <<>> THEN 0 ELSE Head(s) + SumSeq(Tail(s))

\* number of TRUE entries of a boolean vector
CountTrue(v) == Cardinality({j \in DOMAIN v : v[j]})

\* sequences over S of length 1..maxlen
SeqsUpTo(S, maxlen) == UNION {[1..k -> S] : k \in 1..maxlen}

(***************************************************************************)
(* _samples_per_batch, lines 13-65.                                        *)
(***************************************************************************)
max_observations_per_batch(size) == Max(size, ceiling)

\* a quotient rounded up: math.ceil for math.floor
max_samples_per_batch_rounded_up(size) ==
    (max_observations_per_batch(size) + size - 1) \div size

max_samples_per_batch(size) == max_observations_per_batch(size) \div size

\* np.repeat(a, repeats)
np_repeat(a, repeats) == [i \in 1..repeats |-> a]

\* a planner without lines 60-64: the partial batch is dropped
p_samples_per_batch_without_remainder(size, nsim) ==
    np_repeat(max_samples_per_batch(size), nsim \div max_samples_per_batch(size))

p_samples_per_batch(size, nsim) ==
    LET m == max_samples_per_batch(size)
        full == np_repeat(m, nsim \div m)
    IN  IF nsim % m # 0 THEN Append(full, nsim % m) ELSE full

(***************************************************************************)
(* Matrices.                                                               *)
(***************************************************************************)
EmptyMatrix == [shape |-> <<0, 0>>, data |-> <<>>]

\* flat.reshape(rows, cols), row-major
reshape(flat, rows, cols) ==
    [shape |-> <<rows, cols>>,
     data |-> [i \in 1..rows |-> [j \in 1..cols |-> flat[(i - 1) * cols + j]]]]

\* np.all(x == x[0], axis=0); x has at least one row
single_value_columns(x) ==
    [j \in 1..x.shape[2] |->
        \A i \in 1..x.shape[1] : x.data[i][j] = x.data[1][j]]

\* how many TRUE entries mask has up to and including position j
RankIn(mask, j) == Cardinality({c \in 1..j : mask[c]})

\* the block written into the leading columns, whatever the mask
splice_leading_columns(x, mask, block) ==
    [shape |-> x.shape,
     data |-> [i \in 1..x.shape[1] |-> [j \in 1..x.shape[2] |->
                 IF j <= block.shape[2] THEN block.data[i][j]
                 ELSE x.data[i][j]]]]

\* x[:, mask] = block
splice(x, mask, block) ==
    [shape |-> x.shape,
     data |-> [i \in 1..x.shape[1] |-> [j \in 1..x.shape[2] |->
                 IF mask[j] THEN block.data[i][RankIn(mask, j)]
                 ELSE x.data[i][j]]]]

\* column j of x, as the sequence of its rows
Column(x, j) == [i \in 1..x.shape[1] |-> x.data[i][j]]

(***************************************************************************)
(* The distributions and the generator.                                    *)
(***************************************************************************)
\* the values rv_1 and rv_2 can produce
rv_support(g) == {1, 2}

\* rv.rvs(size=m, random_state=rng): the blocks the generator can yield at
\* its position; what the tape already holds is read back from it
rvs(g, m) ==
    {blk \in [1..m -> rv_support(g)] :
        \A i \in 1..m : rng + i <= Len(tape) => blk[i] = tape[rng + i]}

\* the tape once blk has been read at the generator's position; the stream
\* of a generator nobody can seed alike again is not kept
tape_after(blk) ==
    IF ~seeded \/ rng + Len(blk) <= Len(tape) THEN tape
    ELSE SubSeq(tape, 1, rng) \o blk

(***************************************************************************)
(* stats.ttest_ind(a, b, equal_var=False).pvalue <= alpha_test, per column.*)
(* The p-value is that of a statistic t; it falls as t*t grows.  With      *)
(* S = sum, Q = sum of squares and D = rows*Q - S*S of each column,        *)
(*   t*t = T / B,  T = (S1*r2 - S2*r1)^2 * (r1-1) * (r2-1),                 *)
(*                 B = D1*r2^2*(r2-1) + D2*r1^2*(r1-1),                     *)
(* and the p-value is taken as B / (B + T): 1 at t = 0, 0 at t infinite.   *)
(* It is nan when a group has fewer than two rows or when T = B = 0, and   *)
(* nan <= alpha_test is false.                                             *)
(***************************************************************************)
ColSum(c) == SumSeq(c)
ColSumSq(c) == SumSeq([i \in DOMAIN c |-> c[i] * c[i]])

TTerm(c1, c2) ==
    LET r1 == Len(c1)
        r2 == Len(c2)
        d == ColSum(c1) * r2 - ColSum(c2) * r1
    IN  d * d * (r1 - 1) * (r2 - 1)

BTerm(c1, c2) ==
    LET r1 == Len(c1)
        r2 == Len(c2)
        D1 == r1 * ColSumSq(c1) - ColSum(c1) * ColSum(c1)
        D2 == r2 * ColSumSq(c2) - ColSum(c2) * ColSum(c2)
    IN  D1 * r2 * r2 * (r2 - 1) + D2 * r1 * r1 * (r1 - 1)

pvalue_is_nan(c1, c2) ==
    \/ Len(c1) < 2
    \/ Len(c2) < 2
    \/ TTerm(c1, c2) = 0 /\ BTerm(c1, c2) = 0

\* pvalue <= alpha_test for one column pair
rejects(c1, c2, alpha) ==
    /\ ~pvalue_is_nan(c1, c2)
    /\ BTerm(c1, c2) * alpha[2] <= alpha[1] * (BTerm(c1, c2) + TTerm(c1, c2))

\* a test on the flattened matrices: one outcome for the whole batch
test_outcomes_flattened(a, bb, alpha) ==
    <<rejects(Column(a, 1), Column(bb, 1), alpha)>>

\* test_result.pvalue <= alpha_test for a batch
test_outcomes(a, bb, alpha) ==
    [j \in 1..a.shape[2] |-> rejects(Column(a, j), Column(bb, j), alpha)]

(***************************************************************************)
(* The result row, lines 344-369.                                          *)
(***************************************************************************)
\* round(num / den, 2), in hundredths; a tie goes to the even hundredth
round2(num, den) ==
    LET q == (100 * num) \div den
        r == (100 * num) % den
    IN  IF 2 * r > den THEN q + 1
        ELSE IF 2 * r = den THEN q + (q % 2)
        ELSE q

\* ssp.proportion_confint(nobs, count, alpha, method='beta'): the interval
\* is a function of its arguments, kept as the arguments themselves
proportion_confint(nobs, count) ==
    <<[limit |-> "ll", nobs |-> nobs, count |-> count],
      [limit |-> "ul", nobs |-> nobs, count |-> count]>>

base_row ==
    LET number_rejections == CountTrue(bernoulli_trial)
        conf_int == proportion_confint(n_simulation, number_rejections)
    IN  [n |-> sample_size, n_1 |-> n_1, n_2 |-> n_2,
         rejection_prob_est |-> <<number_rejections, n_simulation>>,
         ll_conf_int_rejection_prob |-> conf_int[1],
         ul_conf_int_rejection_prob |-> conf_int[2]]

share_columns ==
    [share_fixed_samples_group_1 |->
        round2(num_fixed_samples_group_1, n_simulation),
     share_fixed_samples_group_2 |->
        round2(num_fixed_samples_group_2, n_simulation)]

\* the union of two records
Merge(r, s) ==
    [f \in DOMAIN r \cup DOMAIN s |-> IF f \in DOMAIN s THEN s[f] ELSE r[f]]

\* a row that carries the share columns whatever the flag says
result_bernoulli_trial_always_shares == Merge(base_row, share_columns)

result_bernoulli_trial ==
    IF fix_degenerated_samples THEN Merge(base_row, share_columns)
    ELSE base_row

(***************************************************************************)
(* Initial states: a call of get_est_welchs_test_properties.               *)
(***************************************************************************)
Ceilings == {MAX_OBSERVATIONS, ScaledCeiling}

Shares == {<<1, 2>>, <<2, 3>>}

Alphas == {<<1, 2>>}

Locals0 ==
    /\ results = <<>>
    /\ idx = 1
    /\ sample_size = 0
    /\ num_fixed_samples_group_1 = 0
    /\ num_fixed_samples_group_2 = 0
    /\ n_1 = 0
    /\ n_2 = 0
    /\ bernoulli_trial = <<>>
    /\ plan = <<>>
    /\ b = 1
    /\ samples_per_batch = 0
    /\ x_1 = EmptyMatrix
    /\ x_2 = EmptyMatrix
    /\ fix_group = 0
    /\ is_single_value_column = <<>>
    /\ x_temp = EmptyMatrix
    /\ attempts = 0
    /\ x_at_entry = EmptyMatrix
    /\ df = <<>>

\* a call whose run draws at most max_draws observations before any repair
InitCall(is_seeded, max_draws) ==
    /\ pc = "for_n"
    /\ ceiling \in Ceilings
    /\ n \in SeqsUpTo(1..MaxSampleSize, MaxListLen)
    /\ share_n_group_1 \in Shares
    /\ alpha_test \in Alphas
    /\ n_simulation \in 1..MaxSimulation
    /\ SumSeq(n) * n_simulation <= max_draws
    /\ fix_degenerated_samples \in BOOLEAN
    /\ rng = 0
    /\ seeded = is_seeded
    /\ tape = <<>>
    /\ run = 1
    /\ df_first = <<>>
    /\ Locals0

Init == InitCall(FALSE, MaxDraws)

(***************************************************************************)
(* get_est_welchs_test_properties, lines 289-372.                          *)
(***************************************************************************)
\* the counters set to 0 once, before the loop over n, and not again
NextSampleSize_counters_kept ==
    /\ pc = "for_n"
    /\ idx <= Len(n)
    /\ sample_size' = n[idx]
    /\ n_1' = group_1_size(n[idx], share_n_group_1)
    /\ n_2' = group_2_size(n[idx], share_n_group_1)
    /\ bernoulli_trial' = <<>>
    /\ plan' = p_samples_per_batch(n[idx], n_simulation)
    /\ b' = 1
    /\ pc' = "for_batch"
    /\ UNCHANGED <<args, rng, tape, results, idx, samples_per_batch, x_1, x_2,
                   num_fixed_samples_group_1, num_fixed_samples_group_2,
                   repair_locals, df, run, df_first>>

\* lines 291-302: the next sample size; counters, group sizes, batch plan
NextSampleSize ==
    /\ pc = "for_n"
    /\ idx <= Len(n)
    /\ sample_size' = n[idx]
    /\ num_fixed_samples_group_1' = 0
    /\ num_fixed_samples_group_2' = 0
    /\ n_1' = group_1_size(n[idx], share_n_group_1)
    /\ n_2' = group_2_size(n[idx], share_n_group_1)
    /\ bernoulli_trial' = <<>>
    /\ plan' = p_samples_per_batch(n[idx], n_simulation)
    /\ b' = 1
    /\ pc' = "for_batch"
    /\ UNCHANGED <<args, rng, tape, results, idx, samples_per_batch, x_1, x_2,
                   repair_locals, df, run, df_first>>

\* lines 302-309: the next batch; draw group 1
DrawGroup1 ==
    /\ pc = "for_batch"
    /\ b <= Len(plan)
    /\ samples_per_batch' = plan[b]
    /\ \E blk \in rvs(1, n_1 * plan[b]) :
        /\ x_1' = reshape(blk, n_1, plan[b])
        /\ rng' = rng + Len(blk)
        /\ tape' = tape_after(blk)
    /\ fix_group' = IF fix_degenerated_samples THEN 1 ELSE 0
    /\ pc' = IF fix_degenerated_samples THEN "fix" ELSE "draw_2"
    /\ UNCHANGED <<args, results, idx, sample_size,
                   num_fixed_samples_group_1, num_fixed_samples_group_2,
                   n_1, n_2, bernoulli_trial, plan, b, x_2,
                   is_single_value_column, x_temp, attempts, x_at_entry,
                   df, run, df_first>>

\* lines 323-327: draw group 2
DrawGroup2 ==
    /\ pc = "draw_2"
    /\ \E blk \in rvs(2, n_2 * samples_per_batch) :
        /\ x_2' = reshape(blk, n_2, samples_per_batch)
        /\ rng' = rng + Len(blk)
        /\ tape' = tape_after(blk)
    /\ fix_group' = IF fix_degenerated_samples THEN 2 ELSE 0
    /\ pc' = IF fix_degenerated_samples THEN "fix" ELSE "test"
    /\ UNCHANGED <<args, results, idx, sample_size,
                   num_fixed_samples_group_1, num_fixed_samples_group_2,
                   n_1, n_2, bernoulli_trial, plan, b, samples_per_batch, x_1,
                   is_single_value_column, x_temp, attempts, x_at_entry,
                   df, run, df_first>>

\* lines 339-342: the test on the batch; its outcomes are appended
Test ==
    /\ pc = "test"
    /\ bernoulli_trial' =
            bernoulli_trial \o test_outcomes(x_1, x_2, alpha_test)
    /\ b' = b + 1
    /\ pc' = "for_batch"
    /\ UNCHANGED <<args, rng, tape, results, idx, sample_size,
                   num_fixed_samples_group_1, num_fixed_samples_group_2,
                   n_1, n_2, plan, samples_per_batch, x_1, x_2,
                   repair_locals, df, run, df_first>>

\* lines 344-369: the plan is exhausted; the row of this sample size
Estimate ==
    /\ pc = "for_batch"
    /\ b > Len(plan)
    /\ results' = Append(results, result_bernoulli_trial)
    /\ idx' = idx + 1
    /\ pc' = "for_n"
    /\ UNCHANGED <<args, rng, tape, sample_size,
                   num_fixed_samples_group_1, num_fixed_samples_group_2,
                   n_1, n_2, bernoulli_trial, plan, b, samples_per_batch,
                   x_1, x_2, repair_locals, df, run, df_first>>

\* lines 371-372: the list n is exhausted; the table is returned
Return ==
    /\ pc = "for_n"
    /\ idx > Len(n)
    /\ df' = results
    /\ pc' = "done"
    /\ UNCHANGED <<args, rng, tape, results, idx, sample_size,
                   num_fixed_samples_group_1, num_fixed_samples_group_2,
                   n_1, n_2, bernoulli_trial, plan, b, samples_per_batch,
                   x_1, x_2, repair_locals, run, df_first>>

(***************************************************************************)
(* _fix_degenerated_columns, lines 116-135, on the matrix of fix_group.    *)
(***************************************************************************)
\* the matrix the repair was handed: x aliases x_1 or x_2
x == IF fix_group = 1 THEN x_1 ELSE x_2

\* where the engine goes on when the repair of fix_group returns
after_fix == IF fix_group = 1 THEN "draw_2" ELSE "test"

\* the engine's num_fixed_samples_group_* += the value returned; the mask
\* of the call is gone with its frame
FixReturns(value) ==
    /\ num_fixed_samples_group_1' =
            num_fixed_samples_group_1 + (IF fix_group = 1 THEN value ELSE 0)
    /\ num_fixed_samples_group_2' =
            num_fixed_samples_group_2 + (IF fix_group = 2 THEN value ELSE 0)
    /\ is_single_value_column' = <<>>
    /\ x_at_entry' = EmptyMatrix
    /\ pc' = after_fix

\* lines 116-118: x[0] of a matrix without rows raises IndexError
FixRaises ==
    /\ pc = "fix"
    /\ x.shape[1] = 0
    /\ pc' = "raised"
    /\ UNCHANGED <<args, rng, tape, results, idx, sample_size,
                   num_fixed_samples_group_1, num_fixed_samples_group_2,
                   n_1, n_2, bernoulli_trial, plan, b, samples_per_batch,
                   x_1, x_2, repair_locals, df, run, df_first>>

\* lines 116-118, 134-135: the mask; without a degenerate column, return 0
FixEnter ==
    /\ pc = "fix"
    /\ x.shape[1] > 0
    /\ attempts' = 0
    /\ IF \E j \in 1..x.shape[2] : single_value_columns(x)[j]
       THEN /\ is_single_value_column' = single_value_columns(x)
            /\ x_at_entry' = x
            /\ pc' = "retry"
            /\ UNCHANGED <<num_fixed_samples_group_1,
                           num_fixed_samples_group_2>>
       ELSE FixReturns(CountTrue(single_value_columns(x)))
    /\ UNCHANGED <<args, rng, tape, results, idx, sample_size, n_1, n_2,
                   bernoulli_trial, plan, b, samples_per_batch, x_1, x_2,
                   fix_group, x_temp, df, run, df_first>>

\* a block as wide as the whole matrix
redraw_size_all_columns(rows, k) == rows * x.shape[2]

\* lines 121-124: the size of the block one pass of the loop draws
redraw_size(rows, k) == rows * k

\* np.any for np.all: one good column lets the block through
accepts_any(block) ==
    \E j \in 1..block.shape[2] : ~single_value_columns(block)[j]

\* line 130: np.all(~is_single_value_column_in_substitutes)
accepts(block) ==
    \A j \in 1..block.shape[2] : ~single_value_columns(block)[j]

\* a count that grows with every block drawn
num_degenerated_columns_redrawn ==
    CountTrue(is_single_value_column) * (attempts + 1)

\* the repair drawing from the default generator of line 71, which nobody
\* seeded: any block can come
fix_rvs_default_generator(g, m) == [1..m -> rv_support(g)]

\* lines 121-124 with the rng handed over on lines 315-319 and 333-337
fix_rvs(g, m) == rvs(g, m)

\* line 134: is_single_value_column.sum(), the mask being that of the entry
num_degenerated_columns_fixed == CountTrue(is_single_value_column)

\* lines 120-130: one pass of the while loop whose block is discarded
RedrawRejected ==
    /\ pc = "retry"
    /\ attempts < MaxAttempts
    /\ LET rows == x.shape[1]
           k == CountTrue(is_single_value_column)
       IN  \E blk \in fix_rvs(fix_group, redraw_size(rows, k)) :
            /\ ~accepts(reshape(blk, rows, k))
            /\ x_temp' = reshape(blk, rows, k)
            /\ rng' = rng + Len(blk)
            /\ tape' = tape_after(blk)
    /\ attempts' = attempts + 1
    /\ UNCHANGED <<args, results, idx, sample_size,
                   num_fixed_samples_group_1, num_fixed_samples_group_2,
                   n_1, n_2, bernoulli_trial, plan, b, samples_per_batch,
                   x_1, x_2, pc, fix_group, is_single_value_column,
                   x_at_entry, df, run, df_first>>

\* lines 120-135: the pass of the while loop whose block is spliced in
RedrawAccepted ==
    /\ pc = "retry"
    /\ LET rows == x.shape[1]
           k == CountTrue(is_single_value_column)
       IN  \E blk \in fix_rvs(fix_group, redraw_size(rows, k)) :
            LET block == reshape(blk, rows, k)
            IN  /\ accepts(block)
                /\ x_temp' = block
                /\ rng' = rng + Len(blk)
                /\ tape' = tape_after(blk)
                /\ x_1' = IF fix_group = 1
                          THEN splice(x_1, is_single_value_column, block)
                          ELSE x_1
                /\ x_2' = IF fix_group = 2
                          THEN splice(x_2, is_single_value_column, block)
                          ELSE x_2
    /\ FixReturns(num_degenerated_columns_fixed)
    /\ UNCHANGED <<args, results, idx, sample_size, n_1, n_2,
                   bernoulli_trial, plan, b, samples_per_batch, fix_group,
                   attempts, df, run, df_first>>

(***************************************************************************)
(* The caller repeats a completed call with the same arguments and a       *)
(* generator seeded as the first one was (tests, lines 18 and 50).         *)
(***************************************************************************)
Rerun ==
    /\ pc = "done"
    /\ run = 1
    /\ seeded
    /\ df_first' = df
    /\ run' = 2
    /\ rng' = 0
    /\ pc' = "for_n"
    /\ results' = <<>>
    /\ idx' = 1
    /\ sample_size' = 0
    /\ num_fixed_samples_group_1' = 0
    /\ num_fixed_samples_group_2' = 0
    /\ n_1' = 0
    /\ n_2' = 0
    /\ bernoulli_trial' = <<>>
    /\ plan' = <<>>
    /\ b' = 1
    /\ samples_per_batch' = 0
    /\ x_1' = EmptyMatrix
    /\ x_2' = EmptyMatrix
    /\ fix_group' = 0
    /\ is_single_value_column' = <<>>
    /\ x_temp' = EmptyMatrix
    /\ attempts' = 0
    /\ x_at_entry' = EmptyMatrix
    /\ df' = <<>>
    /\ UNCHANGED <<args, tape>>

Next ==
    \/ NextSampleSize
    \/ DrawGroup1
    \/ FixRaises
    \/ FixEnter
    \/ RedrawRejected
    \/ RedrawAccepted
    \/ DrawGroup2
    \/ Test
    \/ Estimate
    \/ Return

Spec == Init /\ [][Next]_vars

\* the repair loop is offered, again and again, a block it accepts
Fairness == WF_vars(Next) /\ SF_vars(RedrawAccepted)

\* the calls under the ceiling of line 50
InitFair == Init /\ ceiling = MAX_OBSERVATIONS

SpecFair == InitFair /\ [][Next]_vars /\ Fairness

InitRerun == InitCall(TRUE, MaxRerunDraws)

NextRerun == Next \/ Rerun

SpecRerun == InitRerun /\ [][NextRerun]_vars

(***************************************************************************)
(* The two pure computations on their own: the batch planner and the split *)
(* of a total sample size, over sample sizes on both sides of the ceiling. *)
(***************************************************************************)
PlannerSizes ==
    (1..MaxPlannerSize)
    \cup {MAX_OBSERVATIONS \div 3, MAX_OBSERVATIONS \div 3 + 1,
          MAX_OBSERVATIONS \div 2, MAX_OBSERVATIONS \div 2 + 1,
          MAX_OBSERVATIONS - 1, MAX_OBSERVATIONS, MAX_OBSERVATIONS + 1,
          2 * MAX_OBSERVATIONS}

\* shares strictly between 0 and 1
PlannerShares ==
    {<<num, den>> \in (1..MaxShareDen) \X (1..MaxShareDen) : num < den}

InitPure ==
    /\ pc = "pure"
    /\ ceiling = MAX_OBSERVATIONS
    /\ n = <<>>
    /\ share_n_group_1 \in PlannerShares
    /\ alpha_test \in Alphas
    /\ n_simulation \in 1..MaxPlannerSimulation
    /\ fix_degenerated_samples = FALSE
    /\ rng = 0
    /\ seeded = FALSE
    /\ tape = <<>>
    /\ run = 1
    /\ df_first = <<>>
    /\ results = <<>>
    /\ idx = 1
    /\ sample_size \in PlannerSizes
    /\ num_fixed_samples_group_1 = 0
    /\ num_fixed_samples_group_2 = 0
    /\ n_1 = 0
    /\ n_2 = 0
    /\ bernoulli_trial = <<>>
    /\ plan = <<>>
    /\ b = 1
    /\ samples_per_batch = 0
    /\ x_1 = EmptyMatrix
    /\ x_2 = EmptyMatrix
    /\ fix_group = 0
    /\ is_single_value_column = <<>>
    /\ x_temp = EmptyMatrix
    /\ attempts = 0
    /\ x_at_entry = EmptyMatrix
    /\ df = <<>>

\* lines 296-297 applied to sample_size
CallSplit ==
    /\ pc = "pure"
    /\ n_1' = group_1_size(sample_size, share_n_group_1)
    /\ n_2' = group_2_size(sample_size, share_n_group_1)
    /\ pc' = "split"
    /\ UNCHANGED <<args, rng, tape, results, idx, sample_size,
                   num_fixed_samples_group_1, num_fixed_samples_group_2,
                   bernoulli_trial, plan, b, samples_per_batch, x_1, x_2,
                   repair_locals, df, run, df_first>>

\* line 302: _samples_per_batch(sample_size, n_simulation)
CallSamplesPerBatch ==
    /\ pc = "split"
    /\ plan' = p_samples_per_batch(sample_size, n_simulation)
    /\ pc' = "planned"
    /\ UNCHANGED <<args, rng, tape, results, idx, sample_size,
                   num_fixed_samples_group_1, num_fixed_samples_group_2,
                   n_1, n_2, bernoulli_trial, b, samples_per_batch, x_1, x_2,
                   repair_locals, df, run, df_first>>

NextPure == CallSplit \/ CallSamplesPerBatch

SpecPure == InitPure /\ [][NextPure]_vars

(***************************************************************************)
(* Properties.                                                             *)
(***************************************************************************)
\* a matrix without a column whose rows all equal its first row
NoDegenerateColumn(m) ==
    \A j \in 1..m.shape[2] : \E i \in 1..m.shape[1] : m.data[i][j] # m.data[1][j]

\* the number of columns of m whose rows all equal its first row
DegenerateColumns(m) ==
    Cardinality({j \in 1..m.shape[2] :
                    \A i \in 1..m.shape[1] : m.data[i][j] = m.data[1][j]})

\* C1: for sample_size >= 1 and n_simulation >= 1 the plan returned by
\* _samples_per_batch sums exactly to n_simulation and each entry is >= 1.
C1_PlanSumsToSimulations ==
    pc = "planned" =>
        /\ SumSeq(plan) = n_simulation
        /\ \A i \in DOMAIN plan : plan[i] >= 1

\* a plan under the ceiling of line 50 with full batches and a partial one
C1_Witness ==
    /\ pc = "planned"
    /\ ceiling = MAX_OBSERVATIONS
    /\ Len(plan) >= 3
    /\ plan[Len(plan)] < plan[1]

\* C2: every batch size of the plan keeps sample_size * batch size within
\* max(sample_size, ceiling), and max_samples_per_batch is >= 1, also when
\* sample_size exceeds the ceiling.
C2_BatchWithinCeiling ==
    pc = "planned" =>
        /\ (sample_size * (Max(sample_size, ceiling) \div sample_size)
                <= Max(sample_size, ceiling))
        /\ Max(sample_size, ceiling) \div sample_size >= 1
        /\ \A i \in DOMAIN plan :
                sample_size * plan[i] <= Max(sample_size, ceiling)

\* a plan for a sample size above the ceiling of line 50: one trial a batch
C2_Witness ==
    /\ pc = "planned"
    /\ ceiling = MAX_OBSERVATIONS
    /\ sample_size > MAX_OBSERVATIONS
    /\ Len(plan) >= 2
    /\ \A i \in DOMAIN plan : plan[i] = 1

\* C7 as stated: n_1 = ceil(n * share_n_group_1), n_2 = n - n_1, and so
\* n_1 + n_2 = n, n_1 >= 1 and n_2 >= 1, for every n and every share in (0,1).
C7_BothGroupsNonEmpty ==
    pc \in {"split", "planned"} =>
        /\ n_1 * share_n_group_1[2] >= sample_size * share_n_group_1[1]
        /\ (n_1 - 1) * share_n_group_1[2] < sample_size * share_n_group_1[1]
        /\ n_1 + n_2 = sample_size
        /\ n_1 >= 1
        /\ n_2 >= 1

\* C7, amended: n_1 is the least integer >= n * share_n_group_1 and
\* n_2 = n - n_1, so n_1 + n_2 = n, 1 <= n_1 <= n and n_2 >= 0; n_2 >= 1
\* exactly when n * share_n_group_1 <= n - 1.
C7_SplitRoundsUp ==
    pc \in {"split", "planned"} =>
        /\ n_1 * share_n_group_1[2] >= sample_size * share_n_group_1[1]
        /\ (n_1 - 1) * share_n_group_1[2] < sample_size * share_n_group_1[1]
        /\ n_1 + n_2 = sample_size
        /\ n_1 >= 1
        /\ n_2 >= 0
        /\ (n_2 >= 1 <=>
                sample_size * share_n_group_1[1]
                    <= (sample_size - 1) * share_n_group_1[2])

\* a split whose product n * share_n_group_1 is no integer and is rounded up,
\* leaving both groups with observations
C7_Witness ==
    /\ pc = "split"
    /\ (sample_size * share_n_group_1[1]) % share_n_group_1[2] # 0
    /\ n_1 >= 2
    /\ n_2 >= 1

\* C3: when _fix_degenerated_columns has returned, its matrix holds no
\* degenerate column; with fix_degenerated_samples, x_1 and x_2 reach the
\* test without one.
C3_NoDegenerateColumnAfterRepair ==
    fix_degenerated_samples =>
        /\ pc = "draw_2" => NoDegenerateColumn(x_1)
        /\ pc = "test" => NoDegenerateColumn(x_1) /\ NoDegenerateColumn(x_2)

\* both matrices stand before the test, each repaired in a column after a
\* block was discarded
C3_Witness ==
    /\ pc = "test"
    /\ fix_degenerated_samples
    /\ b = 1
    /\ num_fixed_samples_group_1 >= 1
    /\ num_fixed_samples_group_2 >= 1
    /\ attempts >= 1

\* a step in which _fix_degenerated_columns returns to the engine
FixReturnStep == pc \in {"fix", "retry"} /\ pc' \in {"draw_2", "test"}

\* what the engine adds to the counter of group g in a step
Added(g) ==
    IF g = 1 THEN num_fixed_samples_group_1' - num_fixed_samples_group_1
    ELSE num_fixed_samples_group_2' - num_fixed_samples_group_2

\* C4: _fix_degenerated_columns returns the number of columns that were
\* degenerate when it was called, however many redraws it took, and 0 when
\* none was.
C4_ReturnsCountAtEntry ==
    [][FixReturnStep =>
        /\ Added(fix_group) =
                DegenerateColumns(IF pc = "fix" THEN x ELSE x_at_entry)
        /\ Added(3 - fix_group) = 0]_vars

\* the repair of group 1 has returned 2 after at least one discarded block
C4_Witness ==
    /\ pc = "draw_2"
    /\ fix_group = 1
    /\ attempts >= 1
    /\ b = 1
    /\ x_1.shape[2] = 2
    /\ num_fixed_samples_group_1 = 2

\* the last k entries of a sequence
LastEntries(s, k) == SubSeq(s, Len(s) - k + 1, Len(s))

\* C5: the outcome vector grows by one batch of the plan at a time, each
\* entry being pvalue <= alpha_test of its trial; when the plan is exhausted
\* it holds n_simulation entries, and every row's rejection_prob_est is the
\* number of true entries over n_simulation, within [0, 1].
C5_OutcomeVectorComplete ==
    /\ pc = "for_batch" =>
        /\ Len(bernoulli_trial) = SumSeq(SubSeq(plan, 1, b - 1))
        /\ b > Len(plan) => Len(bernoulli_trial) = n_simulation
        /\ b > 1 =>
            \A j \in 1..samples_per_batch :
                LastEntries(bernoulli_trial, samples_per_batch)[j]
                    = rejects(Column(x_1, j), Column(x_2, j), alpha_test)
    /\ (pc = "for_n" /\ idx > 1) =>
        results[idx - 1].rejection_prob_est
            = <<CountTrue(bernoulli_trial), n_simulation>>
    /\ \A i \in DOMAIN results :
        /\ results[i].rejection_prob_est[2] = n_simulation
        /\ results[i].rejection_prob_est[1] >= 0
        /\ results[i].rejection_prob_est[1] <= results[i].rejection_prob_est[2]

\* a plan of several batches is exhausted, with a rejection among the trials
C5_Witness ==
    /\ pc = "for_batch"
    /\ b > Len(plan)
    /\ Len(plan) >= 2
    /\ \E j \in DOMAIN bernoulli_trial : bernoulli_trial[j]
    /\ \E j \in DOMAIN bernoulli_trial : ~bernoulli_trial[j]

ShareColumns == {"share_fixed_samples_group_1", "share_fixed_samples_group_2"}

\* C8: the table returned holds one row per entry of n, in the order of n,
\* row i carrying n[i] and its n_1 and n_2; the two share columns are there
\* if and only if fix_degenerated_samples is true.
C8_OneRowPerSampleSize ==
    pc = "done" =>
        /\ Len(df) = Len(n)
        /\ \A i \in DOMAIN df :
            /\ df[i].n = n[i]
            /\ df[i].n_1 = group_1_size(n[i], share_n_group_1)
            /\ df[i].n_2 = n[i] - df[i].n_1
            /\ {"n", "n_1", "n_2", "rejection_prob_est",
                "ll_conf_int_rejection_prob", "ul_conf_int_rejection_prob"}
                    \subseteq DOMAIN df[i]
            /\ IF fix_degenerated_samples
               THEN ShareColumns \subseteq DOMAIN df[i]
               ELSE ShareColumns \cap DOMAIN df[i] = {}

\* a table of two rows with the share columns, a column having been repaired
C8_Witness ==
    /\ pc = "done"
    /\ Len(df) = 2
    /\ fix_degenerated_samples
    /\ df[1].share_fixed_samples_group_1 > 0

\* C10: each pass of the repair loop draws one block of rows * k values, k
\* being the number of degenerate columns at entry; a block with a
\* degenerate column leaves x as it was and the loop running; x changes once
\* only, by a block without degenerate column spliced into the k columns,
\* and the loop ends there.
C10_WholeBlockRetry ==
    /\ [](pc = "retry" => x = x_at_entry)
    /\ [][pc = "retry" =>
            LET rows == x_at_entry.shape[1]
                k == DegenerateColumns(x_at_entry)
            IN  /\ rng' = rng + rows * k
                /\ x_temp'.shape = <<rows, k>>
                /\ IF NoDegenerateColumn(x_temp')
                   THEN /\ pc' # "retry"
                        /\ x' = splice(x_at_entry,
                                       single_value_columns(x_at_entry),
                                       x_temp')
                        /\ x' # x
                   ELSE /\ pc' = "retry"
                        /\ x_1' = x_1
                        /\ x_2' = x_2]_vars
    /\ [][(x_1' # x_1 \/ x_2' # x_2) /\ pc \in {"fix", "retry"} =>
            pc = "retry" /\ pc' # "retry"]_vars

\* the repair of a matrix of two columns, one of them degenerate, has ended
\* after a discarded block
C10_Witness ==
    /\ pc = "draw_2"
    /\ fix_group = 1
    /\ attempts >= 1
    /\ x_1.shape[2] = 2
    /\ b = 1
    /\ num_fixed_samples_group_1 = 1
    /\ x_temp.shape = <<x_1.shape[1], 1>>

\* C6: a call repeated with the same arguments and a generator seeded alike
\* reads the generator's stream in the same order, no further and no less,
\* and returns the same table.
C6_RerunReturnsSameTable ==
    /\ [](run = 2 => rng <= Len(tape))
    /\ []((run = 2 /\ pc = "done") => (df = df_first /\ rng = Len(tape)))
    /\ [][run = 2 => tape' = tape]_vars

\* the repeated call has returned a table with a repaired column in it
C6_Witness ==
    /\ run = 2
    /\ pc = "done"
    /\ fix_degenerated_samples
    /\ Len(df) >= 1
    /\ df[1].share_fixed_samples_group_1 > 0
    /\ attempts >= 1

\* every requested sample size splits into groups of at least k observations
GroupSizesAtLeast(k) ==
    \A i \in DOMAIN n :
        /\ group_1_size(n[i], share_n_group_1) >= k
        /\ group_2_size(n[i], share_n_group_1) >= k

\* C9: every run, whatever the group sizes n_1, n_2 >= 1, ends: it returns
\* the table of all requested sample sizes or it raises, the repair loop
\* being offered a block it accepts.  Stated as what a finite run refutes:
\* while the repair loop runs, a block it accepts can be offered.
C9_RepairLoopCanEnd ==
    GroupSizesAtLeast(1) => (pc = "retry" => ENABLED RedrawAccepted)

\* C9 as a property of whole runs, under the fairness of SpecFair
C9_RunEnds ==
    GroupSizesAtLeast(1) =>
        <>(pc = "raised" \/ (pc = "done" /\ Len(df) = Len(n)))

\* C11: when _fix_degenerated_columns returns, x has the shape it had at
\* entry and every column that was not degenerate at entry holds the values
\* it held; the matrix of the other group is not touched; a matrix without
\* a degenerate column at entry comes back as it was, at once, and the
\* generator has not advanced.
C11_RepairFrame ==
    /\ [][FixReturnStep =>
            LET entry == IF pc = "fix" THEN x ELSE x_at_entry
                other == IF fix_group = 1 THEN x_2 ELSE x_1
                other_after == IF fix_group = 1 THEN x_2' ELSE x_1'
            IN  /\ fix_group' = fix_group
                /\ x'.shape = entry.shape
                /\ \A j \in 1..entry.shape[2] :
                        ~single_value_columns(entry)[j] =>
                            Column(x', j) = Column(entry, j)
                /\ other_after = other
                /\ NoDegenerateColumn(entry) =>
                        x' = entry /\ rng' = rng /\ tape' = tape]_vars
    /\ [][(pc = "fix" /\ x.shape[1] > 0 /\ NoDegenerateColumn(x)) =>
            /\ pc' = after_fix
            /\ x_1' = x_1
            /\ x_2' = x_2
            /\ rng' = rng]_vars

\* the repair of a matrix of two rows and two columns has returned, one
\* column being the block drawn and the other one kept
C11_Witness ==
    /\ pc = "draw_2"
    /\ fix_group = 1
    /\ x_1.shape = <<2, 2>>
    /\ num_fixed_samples_group_1 = 1
    /\ x_temp.shape = <<2, 1>>
    /\ Column(x_1, 2) = Column(x_temp, 1)
    /\ Column(x_1, 1) # Column(x_temp, 1)

\* the trials of the current sample size for which the matrix of group g
\* has been drawn: the batches done, and the batch under way once its
\* matrix of group g exists
TrialsDrawn(g) ==
    LET in_repair == pc \in {"fix", "retry", "raised"}
        under_way ==
            IF g = 1 THEN in_repair \/ pc \in {"draw_2", "test"}
            ELSE (in_repair /\ fix_group = 2) \/ pc = "test"
    IN  SumSeq(SubSeq(plan, 1, IF under_way THEN b ELSE b - 1))

\* a step that starts a sample size, and a step that ends one with its row
StartsSampleSize == pc = "for_n" /\ pc' = "for_batch"

EndsSampleSize == pc = "for_batch" /\ pc' = "for_n"

\* C12: both repair counters are set to 0 when a sample size starts, and
\* the outcome vector is emptied; from there a counter changes only when
\* the repair of its group returns, by the count returned; so each counter
\* is at most the number of trials drawn so far for the current sample
\* size, hence at most n_simulation, and every share reported lies in
\* [0, 1]; without fix_degenerated_samples the counters stay 0; the row of
\* a sample size reports the counters and outcomes of that sample size.
C12_CountersPerSampleSize ==
    /\ [](/\ num_fixed_samples_group_1 >= 0
          /\ num_fixed_samples_group_2 >= 0
          /\ num_fixed_samples_group_1 <= TrialsDrawn(1)
          /\ num_fixed_samples_group_2 <= TrialsDrawn(2)
          /\ TrialsDrawn(1) <= n_simulation
          /\ TrialsDrawn(2) <= n_simulation
          /\ ~fix_degenerated_samples =>
                num_fixed_samples_group_1 = 0 /\ num_fixed_samples_group_2 = 0
          /\ \A i \in DOMAIN results :
                \A c \in ShareColumns \cap DOMAIN results[i] :
                    results[i][c] >= 0 /\ results[i][c] <= 100)
    /\ [][StartsSampleSize =>
            /\ num_fixed_samples_group_1' = 0
            /\ num_fixed_samples_group_2' = 0
            /\ bernoulli_trial' = <<>>]_vars
    /\ [][(Added(1) # 0 \/ Added(2) # 0) =>
            \/ StartsSampleSize
            \/ FixReturnStep /\ Added(fix_group) > 0
                    /\ Added(fix_group) <= samples_per_batch]_vars
    /\ [][EndsSampleSize =>
            LET row == results'[Len(results')]
            IN  /\ Len(results') = Len(results) + 1
                /\ row.rejection_prob_est[1] = CountTrue(bernoulli_trial)
                /\ Len(bernoulli_trial) = n_simulation
                /\ fix_degenerated_samples =>
                    /\ row.share_fixed_samples_group_1 =
                            round2(num_fixed_samples_group_1, n_simulation)
                    /\ row.share_fixed_samples_group_2 =
                            round2(num_fixed_samples_group_2, n_simulation)]_vars

\* a second sample size has started with counters at 0 after a first one
\* whose row reports repairs in both groups
C12_Witness ==
    /\ pc = "for_batch"
    /\ idx = 2
    /\ b = 1
    /\ Len(results) = 1
    /\ fix_degenerated_samples
    /\ results[1].share_fixed_samples_group_1 > 0
    /\ results[1].share_fixed_samples_group_2 > 0
    /\ num_fixed_samples_group_1 = 0
    /\ num_fixed_samples_group_2 = 0
    /\ bernoulli_trial = <<>>

====
